---- MODULE Spec2Model ----
(***************************************************************************)
(* test-server.py: the port scan of main() and the request handling of     *)
(* TestServerHandler (a http.server.SimpleHTTPRequestHandler served by a   *)
(* socketserver.TCPServer).                                                *)
(*                                                                         *)
(* Platform: Linux (errno 98 is EADDRINUSE, as the comment of line 44      *)
(* says) and a CPython that gives the main script an absolute __file__     *)
(* (3.9 and later).  The inherited library methods are modelled by what    *)
(* CPython's http/server.py and socketserver.py do.                        *)
(*                                                                         *)
(* The environment decides each bind when main() attempts it: another      *)
(* process holds the port (OSError 98), the bind is refused for another    *)
(* reason, or it succeeds.  main() tries no port twice, so this is the     *)
(* same as fixing the state of every port before the run.  A connection    *)
(* that sends no request line gets no response and no log line, and is     *)
(* left out.                                                               *)
(***************************************************************************)
EXTENDS Integers, Sequences, FiniteSets, TLC

(***************************************************************************)
(* Program constants                                                       *)
(***************************************************************************)
\* line 28: PORT = 8080
PORT == 8080
\* line 31: range(PORT, PORT + 10)
ScanLen == 10
\* line 44: e.errno == 98
EADDRINUSE == 98

\* range(PORT, PORT + 10)
Ports == PORT .. (PORT + ScanLen - 1)

(***************************************************************************)
(* Bounds of the model                                                     *)
(***************************************************************************)
\* requests handled in one run
MaxRequests == 2
\* OSErrors raised in one run by os.chdir and serve_forever
MaxBodyErrors == 1

(***************************************************************************)
(* The environment: errnos, the file system, the request vocabulary        *)
(***************************************************************************)
\* errno of a bind refused for another reason than the address being in use
\* (EACCES), and of a failing chdir or serve loop (ENOENT, EADDRINUSE)
BindFatalErrnos == {13}
BodyErrnos == {2, EADDRINUSE}

\* CPython ends a process whose KeyboardInterrupt nobody caught by SIGINT: 128 + 2
ExitUnhandledInterrupt == 128 + 2

\* Absolute directories are sequences of names.
ScriptDir == <<"srv", "app">>
ScriptName == "test-server.py"
LaunchDirs == {<<"srv">>, <<"srv", "app">>, <<"home">>}
\* A path is absolute or relative to a working directory.
AbsPath(parts) == [abs |-> TRUE, parts |-> parts]
RelPath(parts) == [abs |-> FALSE, parts |-> parts]

\* The files that exist, with their content.
Files == {<<"srv", "app", "test-elements.html">>, <<"srv", "app", "test-server.py">>,
          <<"home", "test-elements.html">>}
FileContent(p) ==
    IF p = <<"srv", "app", "test-elements.html">> THEN "fixture page"
    ELSE IF p = <<"srv", "app", "test-server.py">> THEN "program text"
    ELSE IF p = <<"home", "test-elements.html">> THEN "another page"
    ELSE "none"

\* The request lines sent by clients, as requestline.split() sees them.
RequestLines ==
    { <<"GET", "/test-elements.html", "HTTP/1.1">>,
      <<"GET", "/missing.html", "HTTP/1.1">>,
      <<"HEAD", "/test-elements.html", "HTTP/1.0">>,
      <<"HEAD", "/missing.html", "HTTP/1.0">>,
      <<"OPTIONS", "/test-elements.html", "HTTP/1.1">>,
      <<"POST", "/test-elements.html", "HTTP/1.1">>,
      <<"GET", "/test-elements.html">>,
      <<"GET", "/missing.html">>,
      <<"HEAD", "/test-elements.html">>,
      <<"GARBAGE">>,
      <<"GET", "/test-elements.html", "extra", "HTTP/1.0">>,
      <<"GET", "/test-elements.html", "FTP/1.0">>,
      <<"GET", "/test-elements.html", "HTTP/2.0">> }

(***************************************************************************)
(* os.path                                                                 *)
(***************************************************************************)
\* os.path.abspath(path) in working directory cwd: a relative path is joined
\* to the working directory of the moment of the call
abspath(path, cwd) == IF path.abs THEN path.parts ELSE cwd \o path.parts

\* os.path.dirname of an absolute path
dirname(parts) == IF parts = <<>> THEN <<>> ELSE SubSeq(parts, 1, Len(parts) - 1)

\* the path the script was named by on the command line (sys.argv[0], for a
\* script launched by its bare name) in the place of __file__
ModuleFileAsTyped(launchDir) == RelPath(<<ScriptName>>)

\* __file__ of the main script, launched from launchDir: the absolute path of
\* the script
ModuleFile(launchDir) == AbsPath(ScriptDir \o <<ScriptName>>)

\* line 14: directory=os.path.dirname(os.path.abspath(__file__)), evaluated
\* when the handler of a request is constructed
HandlerDirectory(file, cwd) == dirname(abspath(file, cwd))

\* line 39: script_dir = os.path.dirname(os.path.abspath(__file__))
script_dir(file, cwd) == dirname(abspath(file, cwd))

(***************************************************************************)
(* BaseHTTPRequestHandler, on a handler h: the request's version and       *)
(* command, the header buffer, the bytes written to the client and the     *)
(* log lines printed.                                                      *)
(***************************************************************************)
NewHandler(directory) ==
    [directory |-> directory, request_version |-> "HTTP/0.9", command |-> "",
     path |-> "", buffer |-> <<>>, wire |-> <<>>, log |-> <<>>, ok |-> FALSE]

\* lines 23-25: print(f"[{self.log_date_time_string()}] {format % args}")
log_message(h, kind, code) ==
    [h EXCEPT !.log = Append(@, <<"[timestamp]", kind, code>>)]

\* BaseHTTPRequestHandler.log_request and log_error: both go to log_message
log_request(h, code) == log_message(h, "access", code)
log_error(h, code) == log_message(h, "error", code)

send_response_only(h, code) ==
    IF h.request_version # "HTTP/0.9"
    THEN [h EXCEPT !.buffer = Append(@, <<"status", code>>)]
    ELSE h

send_header(h, keyword, value) ==
    IF h.request_version # "HTTP/0.9"
    THEN [h EXCEPT !.buffer = Append(@, <<keyword, value>>)]
    ELSE h

send_response(h, code) ==
    send_header(send_header(send_response_only(log_request(h, code), code),
                            "Server", "SimpleHTTP"), "Date", "now")

\* BaseHTTPRequestHandler.end_headers: the blank line, then flush_headers
base_end_headers(h) ==
    IF h.request_version # "HTTP/0.9"
    THEN [h EXCEPT !.wire = @ \o Append(h.buffer, <<"", "">>), !.buffer = <<>>]
    ELSE h

\* end_headers as inherited, without the three headers of lines 18-20
end_headers_inherited(h) == base_end_headers(h)

\* lines 16-21: TestServerHandler.end_headers
end_headers(h) ==
    base_end_headers(
        send_header(
            send_header(
                send_header(h, "Access-Control-Allow-Origin", "*"),
                "Access-Control-Allow-Methods", "GET, POST, OPTIONS"),
            "Access-Control-Allow-Headers", "Content-Type"))

write_body(h, content) == [h EXCEPT !.wire = Append(@, <<"body", content>>)]

\* send_error without its log_error call
send_error_unlogged(h, code) ==
    LET h1 == send_response(h, code)
        h2 == send_header(h1, "Connection", "close")
        h3 == send_header(send_header(h2, "Content-Type", "text/html;charset=utf-8"),
                          "Content-Length", "error page")
        h4 == end_headers(h3)
    IN  IF h.command # "HEAD" THEN write_body(h4, "error page") ELSE h4

\* BaseHTTPRequestHandler.send_error: log_error, send_response (which logs the
\* request), the headers of the error page, end_headers, the page
send_error(h, code) ==
    LET h1 == send_response(log_error(h, code), code)
        h2 == send_header(h1, "Connection", "close")
        h3 == send_header(send_header(h2, "Content-Type", "text/html;charset=utf-8"),
                          "Content-Length", "error page")
        h4 == end_headers(h3)
    IN  IF h.command # "HEAD" THEN write_body(h4, "error page") ELSE h4

\* the version number of a request line's last word, <<>> when it is none
VersionNumber(word) ==
    IF word = "HTTP/1.0" THEN <<1, 0>>
    ELSE IF word = "HTTP/1.1" THEN <<1, 1>>
    ELSE IF word = "HTTP/2.0" THEN <<2, 0>>
    ELSE <<>>

\* BaseHTTPRequestHandler.parse_request on the words of the request line; ok
\* tells whether the request is to be dispatched
parse_request(h, words) ==
    LET n == Len(words)
        version == IF n >= 3 THEN words[n] ELSE "HTTP/0.9"
    IN  IF n >= 3 /\ VersionNumber(version) = <<>> THEN send_error(h, 400)
        ELSE IF n >= 3 /\ VersionNumber(version)[1] >= 2 THEN send_error(h, 505)
        ELSE LET hv == [h EXCEPT !.request_version = version]
             IN  IF ~(2 <= n /\ n <= 3) THEN send_error(hv, 400)
                 ELSE IF n = 2 /\ words[1] # "GET" THEN send_error(hv, 400)
                 ELSE [hv EXCEPT !.command = words[1], !.path = words[2], !.ok = TRUE]

\* SimpleHTTPRequestHandler.translate_path: the file under self.directory
UrlParts(path) ==
    IF path = "/test-elements.html" THEN <<"test-elements.html">>
    ELSE IF path = "/missing.html" THEN <<"missing.html">>
    ELSE <<"unknown">>
translate_path(h) == h.directory \o UrlParts(h.path)

\* SimpleHTTPRequestHandler.send_head, do_GET and do_HEAD, for a file path
send_head(h) ==
    IF translate_path(h) \in Files
    THEN end_headers(
             send_header(
                 send_header(send_response(h, 200), "Content-type", "text/html"),
                 "Content-Length", FileContent(translate_path(h))))
    ELSE send_error(h, 404)

do_GET(h) ==
    IF translate_path(h) \in Files
    THEN write_body(send_head(h), FileContent(translate_path(h)))
    ELSE send_head(h)

do_HEAD(h) == send_head(h)

\* BaseHTTPRequestHandler.handle_one_request of TestServerHandler, which has
\* do_GET and do_HEAD and no other do_ method
handle_one_request(directory, words) ==
    LET h == parse_request(NewHandler(directory), words)
    IN  IF ~h.ok THEN h
        ELSE IF h.command = "GET" THEN do_GET(h)
        ELSE IF h.command = "HEAD" THEN do_HEAD(h)
        ELSE send_error(h, 501)

(***************************************************************************)
(* The process                                                             *)
(***************************************************************************)
VARIABLES
    launchDir,    \* the working directory the program was launched from
    cwd,          \* the working directory of the process
    pc,           \* "scan": about to try `port`; "serving": in serve_forever; "exited"
    port,         \* the loop variable of line 31
    listening,    \* the ports this process holds a listening socket on
    attempts,     \* the binds attempted, in order: <<port, errno>>, errno 0 for a bind that succeeded
    stdout,       \* the lines printed
    exitStatus,   \* {} while the process runs, then {its exit status}
    handled,      \* the number of requests handled
    lastRequest,  \* the words of the last request line handled
    lastHandler,  \* the handler of the last request, after it was handled
    bodyErrors,   \* the number of OSErrors raised by os.chdir and serve_forever
    interrupted   \* whether a KeyboardInterrupt was raised in serve_forever

vars == <<launchDir, cwd, pc, port, listening, attempts, stdout, exitStatus,
          handled, lastRequest, lastHandler, bodyErrors, interrupted>>

\* the lines main() prints
BusyLine(p) == <<"Port is busy, trying", p, p + 1>>
StartingLine(p) == <<"Starting test server at", p, 0>>
TestPageLine(p) == <<"Test page available at", p, 0>>
CtrlCLine == <<"Press Ctrl+C to stop the server", 0, 0>>
ErrorLine(p, errno) == <<"Error starting server on port", p, errno>>
NoPortLine == <<"Could not find an available port", 0, 0>>
\* the lines of a handler's log as they stand in stdout, where the n-th request's
\* lines carry n in the place of the request line and the status
Printed(log, n) == [i \in 1 .. Len(log) |-> <<log[i][1], log[i][2], n>>]
\* lines 34-36
Banner(p) == <<StartingLine(p), TestPageLine(p), CtrlCLine>>

Init ==
    /\ launchDir \in LaunchDirs
    /\ cwd = launchDir
    /\ pc = "scan"
    /\ port = PORT
    /\ listening = {}
    /\ attempts = <<>>
    /\ stdout = <<>>
    /\ exitStatus = {}
    /\ handled = 0
    /\ lastRequest = <<>>
    /\ lastHandler = NewHandler(<<>>)
    /\ bodyErrors = 0
    /\ interrupted = FALSE

\* line 33: TCPServer(("", p), ...) has bound and listens: one more socket held
server_bind(sockets, p) == sockets \cup {p}

\* a with statement whose exit closes nothing
server_close_skipped(sockets, p) == sockets

\* line 33: the exit of the with statement, however its body was left, calls
\* server_close(), as TCPServer(...) does itself when its bind fails
server_close(sockets, p) == sockets \ {p}

\* sys.exit(status), and the end of main()
Exit(status) ==
    /\ pc' = "exited"
    /\ exitStatus' = {status}
    /\ port' = port

\* Continue without the else branch of the for: the range exhausted, main() returns
ContinueFallsThrough(out) ==
    IF port + 1 \in Ports
    THEN /\ pc' = "scan"
         /\ port' = port + 1
         /\ stdout' = out
         /\ exitStatus' = exitStatus
    ELSE /\ stdout' = out
         /\ Exit(0)

\* Continue that starts over at PORT when the range is exhausted
ContinueWrapsAround(out) ==
    /\ pc' = "scan"
    /\ port' = IF port + 1 \in Ports THEN port + 1 ELSE PORT
    /\ stdout' = out
    /\ exitStatus' = exitStatus

\* lines 46 and 51-53: continue, which takes the next port of the range or, the
\* range exhausted, the else branch of the for
Continue(out) ==
    IF port + 1 \in Ports
    THEN /\ pc' = "scan"
         /\ port' = port + 1
         /\ stdout' = out
         /\ exitStatus' = exitStatus
    ELSE /\ stdout' = Append(out, NoPortLine)
         /\ Exit(1)

\* ExceptOSError without the test of e.errno: every OSError is taken for a busy port
ExceptOSErrorAnyErrno(errno, out, sockets) ==
    /\ listening' = server_close(sockets, port)
    /\ Continue(Append(out, BusyLine(port)))

\* lines 43-49: except OSError as e, for an OSError raised anywhere in the try
\* block, after `out` was printed and with `sockets` held; the socket of this
\* iteration is closed before the except clause runs
ExceptOSError(errno, out, sockets) ==
    /\ listening' = server_close(sockets, port)
    /\ IF errno = EADDRINUSE
       THEN Continue(Append(out, BusyLine(port)))
       ELSE /\ stdout' = Append(out, ErrorLine(port, errno))
            /\ Exit(1)

\* line 33: TCPServer(("", port), ...) raises OSError(98): another process
\* holds the port
BindAddrInUse ==
    /\ pc = "scan"
    /\ attempts' = Append(attempts, <<port, EADDRINUSE>>)
    /\ ExceptOSError(EADDRINUSE, stdout, listening)
    /\ UNCHANGED <<launchDir, cwd, handled, lastRequest, lastHandler, bodyErrors, interrupted>>

\* line 33: TCPServer(("", port), ...) raises another OSError
BindRefused ==
    /\ pc = "scan"
    /\ \E errno \in BindFatalErrnos :
          /\ attempts' = Append(attempts, <<port, errno>>)
          /\ ExceptOSError(errno, stdout, listening)
    /\ UNCHANGED <<launchDir, cwd, handled, lastRequest, lastHandler, bodyErrors, interrupted>>

\* lines 33-42: the bind succeeds, the banner is printed, os.chdir succeeds and
\* serve_forever is entered
BindAndServe ==
    /\ pc = "scan"
    /\ attempts' = Append(attempts, <<port, 0>>)
    /\ listening' = server_bind(listening, port)
    /\ stdout' = stdout \o Banner(port)
    /\ cwd' = script_dir(ModuleFile(launchDir), cwd)
    /\ pc' = "serving"
    /\ UNCHANGED <<launchDir, port, exitStatus, handled, lastRequest, lastHandler,
                   bodyErrors, interrupted>>

\* lines 33-40: the bind succeeds, the banner is printed and os.chdir raises OSError
BindAndChdirRaises ==
    /\ pc = "scan"
    /\ bodyErrors < MaxBodyErrors
    /\ \E errno \in BodyErrnos :
          /\ attempts' = Append(attempts, <<port, 0>>)
          /\ ExceptOSError(errno, stdout \o Banner(port), server_bind(listening, port))
    /\ bodyErrors' = bodyErrors + 1
    /\ UNCHANGED <<launchDir, cwd, handled, lastRequest, lastHandler, interrupted>>

\* the status of the response a handler sent: the code of its access log line
Status(h) == h.log[Len(h.log)][3]

\* a serve loop that an error response ends
StopOnErrorResponse(h) ==
    IF Status(h) >= 400
    THEN /\ listening' = {}
         /\ attempts' = attempts
         /\ Exit(1)
    ELSE UNCHANGED <<pc, port, listening, attempts, exitStatus>>

\* line 42: serve_forever, a request handled, selects again: the handler's
\* response, an error response too, changes nothing of the server
KeepServing(h) == UNCHANGED <<pc, port, listening, attempts, exitStatus>>

\* a server that hands each request to a thread of its own: the request's first
\* log line is printed before the last log line of the request before it
process_request_threaded(out, lines) ==
    IF Len(out) > 0 /\ out[Len(out)][1] = "[timestamp]"
    THEN SubSeq(out, 1, Len(out) - 1) \o <<Head(lines), out[Len(out)]>> \o Tail(lines)
    ELSE out \o lines

\* lines 33 and 42: the server is a TCPServer, without ThreadingMixIn: the serve
\* loop runs the handler to its end (process_request: finish_request, then
\* shutdown_request) before it selects again, so the handler's log lines are
\* printed as one block after all that was printed before
process_request(out, lines) == out \o lines

\* line 42: serve_forever accepts one connection and handles its request with a
\* new TestServerHandler, whose log lines are printed
HandleRequest ==
    /\ pc = "serving"
    /\ handled < MaxRequests
    /\ \E words \in RequestLines :
          LET h == handle_one_request(HandlerDirectory(ModuleFile(launchDir), cwd), words)
          IN  /\ lastRequest' = words
              /\ lastHandler' = h
              /\ stdout' = process_request(stdout, Printed(h.log, handled + 1))
              /\ KeepServing(h)
    /\ handled' = handled + 1
    /\ UNCHANGED <<launchDir, cwd, bodyErrors, interrupted>>

\* line 42: serve_forever raises OSError
ServeRaises ==
    /\ pc = "serving"
    /\ bodyErrors < MaxBodyErrors
    /\ \E errno \in BodyErrnos : ExceptOSError(errno, stdout, listening)
    /\ bodyErrors' = bodyErrors + 1
    /\ UNCHANGED <<launchDir, cwd, attempts, handled, lastRequest, lastHandler, interrupted>>

\* line 42: KeyboardInterrupt in serve_forever. The with statement closes the
\* socket; no except clause of main() catches it, and it ends the process
Interrupt ==
    /\ pc = "serving"
    /\ interrupted' = TRUE
    /\ listening' = server_close(listening, port)
    /\ Exit(ExitUnhandledInterrupt)
    /\ UNCHANGED <<launchDir, cwd, attempts, stdout, handled, lastRequest, lastHandler,
                   bodyErrors>>

\* lines 42 and 50: serve_forever returns (after a shutdown() of the server); the
\* with statement closes the socket, break leaves the for without its else
\* branch, main() returns
ServeReturns ==
    /\ pc = "serving"
    /\ listening' = server_close(listening, port)
    /\ Exit(0)
    /\ UNCHANGED <<launchDir, cwd, attempts, stdout, handled, lastRequest, lastHandler,
                   bodyErrors, interrupted>>

Next ==
    \/ BindAddrInUse
    \/ BindRefused
    \/ BindAndServe
    \/ BindAndChdirRaises
    \/ HandleRequest
    \/ ServeRaises
    \/ Interrupt
    \/ ServeReturns

Spec == Init /\ [][Next]_vars

\* lines 31-33: an iteration of the for loop, begun, makes its bind attempt: the
\* bind does not block and nothing waits between two iterations
ScanStep ==
    \/ BindAddrInUse
    \/ BindRefused
    \/ BindAndServe
    \/ BindAndChdirRaises

\* the runs in which the process, while it scans, keeps running
FairSpec == Spec /\ WF_vars(ScanStep)

(***************************************************************************)
(* What a run has done, read from its history                              *)
(***************************************************************************)
AttemptsWith(errnos) == {i \in 1 .. Len(attempts) : attempts[i][2] \in errnos}
\* the ports whose bind found the address in use, and those whose bind succeeded
InUse == {attempts[i][1] : i \in AttemptsWith({EADDRINUSE})}
BoundPorts == {attempts[i][1] : i \in AttemptsWith({0})}
AttemptedPorts == [i \in 1 .. Len(attempts) |-> attempts[i][1]]
IsBusyLine(line) == line[1] = "Port is busy, trying"
IsStartingLine(line) == line[1] = "Starting test server at"
IsLogLine(line) == line[1] = "[timestamp]"
BusyLines == SelectSeq(stdout, IsBusyLine)
StartingLines == SelectSeq(stdout, IsStartingLine)
WasPrinted(line) == \E i \in 1 .. Len(stdout) : stdout[i] = line
LastLine == stdout[Len(stdout)]

(***************************************************************************)
(* C1: when every failed bind failed with address-in-use, the port the     *)
(* server binds and serves on is the lowest free port of 8080..8089 (every *)
(* lower port is in use), every lower port was attempted exactly once      *)
(* before it, and the banner names the bound port; if 8080 is free the     *)
(* first attempt succeeds and the server serves on 8080.                   *)
(***************************************************************************)
C1_ServesLowestFreePort ==
    (pc = "serving" /\ AttemptsWith(BindFatalErrnos) = {}) =>
        /\ listening = {port}
        /\ \A q \in PORT .. (port - 1) : q \in InUse /\ q \notin BoundPorts
        /\ AttemptedPorts = [i \in 1 .. (port - PORT + 1) |-> PORT + i - 1]
        /\ StartingLines[Len(StartingLines)] = StartingLine(port)
        /\ (attempts[1][2] = 0 => port = PORT)

\* C1 holds of the scan up to the first bind that succeeds: of the runs in which
\* no OSError was raised after a bind (see C8)
C1_UpToFirstBind ==
    (pc = "serving" /\ bodyErrors = 0) =>
        /\ listening = {port}
        /\ \A q \in PORT .. (port - 1) : q \in InUse /\ q \notin BoundPorts
        /\ AttemptedPorts = [i \in 1 .. (port - PORT + 1) |-> PORT + i - 1]
        /\ StartingLines = <<StartingLine(port)>>
        /\ (attempts[1][2] = 0 => port = PORT)

(***************************************************************************)
(* C2: every bind that fails with address-in-use prints one 'Port <p> is   *)
(* busy' line; so when the first k ports are in use and port 8080+k is     *)
(* free, exactly k busy lines are printed, in increasing port order, all   *)
(* before the banner, and the server binds on 8080+k.                      *)
(***************************************************************************)
FirstBusyThenFree(k) ==
    /\ Len(attempts) > k
    /\ \A i \in 1 .. k : attempts[i] = <<PORT + i - 1, EADDRINUSE>>
    /\ attempts[k + 1] = <<PORT + k, 0>>

C2_BusyLinesThenBanner ==
    \A k \in 0 .. (ScanLen - 1) :
        FirstBusyThenFree(k) =>
            /\ BusyLines = [i \in 1 .. k |-> BusyLine(PORT + i - 1)]
            /\ SubSeq(stdout, 1, k) = BusyLines
            /\ stdout[k + 1] = StartingLine(PORT + k)
            /\ BoundPorts = {PORT + k}

\* C2 holds of the output up to the first banner
C2_UpToFirstBanner ==
    \A k \in 0 .. (ScanLen - 1) :
        FirstBusyThenFree(k) =>
            /\ SubSeq(stdout, 1, k) = [i \in 1 .. k |-> BusyLine(PORT + i - 1)]
            /\ stdout[k + 1] = StartingLine(PORT + k)
            /\ (bodyErrors = 0 => BusyLines = SubSeq(stdout, 1, k) /\ BoundPorts = {PORT + k})

(***************************************************************************)
(* C3: when all ten ports 8080..8089 are in use, no bind succeeds and the  *)
(* serving state is never entered, 'Could not find an available port' is   *)
(* printed and the process exits with status 1.                            *)
(***************************************************************************)
C3_AllPortsInUse ==
    InUse = Ports =>
        /\ pc = "exited"
        /\ exitStatus = {1}
        /\ LastLine = NoPortLine
        /\ BoundPorts = {}
        /\ StartingLines = <<>>
        /\ listening = {}

C3_Witness == InUse = Ports /\ Len(attempts) = ScanLen /\ pc = "exited"

(***************************************************************************)
(* C4: a bind that fails for another reason than address-in-use is         *)
(* reported and ends the process with status 1 at once: it is the last     *)
(* bind attempted, and neither a 'port busy' line for its port nor 'Could  *)
(* not find an available port' is printed.                                 *)
(***************************************************************************)
C4_OtherBindErrorIsFatal ==
    \A i \in AttemptsWith(BindFatalErrnos) :
        /\ i = Len(attempts)
        /\ pc = "exited"
        /\ exitStatus = {1}
        /\ LastLine = ErrorLine(attempts[i][1], attempts[i][2])
        /\ ~WasPrinted(BusyLine(attempts[i][1]))
        /\ ~WasPrinted(NoPortLine)
        /\ listening = {}

C4_Witness ==
    /\ Len(attempts) = 3
    /\ attempts[3][2] \in BindFatalErrnos
    /\ attempts[3][1] = PORT + 2
    /\ pc = "exited"

(***************************************************************************)
(* C5: an interrupt (KeyboardInterrupt) delivered in serve_forever unwinds *)
(* the serve loop, releases the listening socket and ends the process with *)
(* exit status 0.                                                          *)
(***************************************************************************)
C5_InterruptExitsZero ==
    interrupted => (pc = "exited" /\ listening = {} /\ exitStatus = {0})

\* what the code does on an interrupt: the socket is released, the status is not 0
C5_InterruptReleasesSocket ==
    interrupted => (pc = "exited" /\ listening = {} /\ exitStatus = {ExitUnhandledInterrupt})

(***************************************************************************)
(* C6: every response the handler sends, whatever the method and the       *)
(* outcome, carries the three Access-Control-Allow-* headers, each before  *)
(* the blank line that ends the header block.                              *)
(***************************************************************************)
CorsHeaders ==
    { <<"Access-Control-Allow-Origin", "*">>,
      <<"Access-Control-Allow-Methods", "GET, POST, OPTIONS">>,
      <<"Access-Control-Allow-Headers", "Content-Type">> }
BlankLine == <<"", "">>
CarriesCors(h) ==
    \E e \in 1 .. Len(h.wire) :
        /\ h.wire[e] = BlankLine
        /\ \A c \in CorsHeaders : Cardinality({i \in 1 .. (e - 1) : h.wire[i] = c}) = 1
        /\ \A i \in (e + 1) .. Len(h.wire) : h.wire[i] \notin CorsHeaders
HeaderLines(h) == {i \in 1 .. Len(h.wire) : h.wire[i][1] # "body"}

C6_EveryResponseCarriesCors ==
    handled > 0 => CarriesCors(lastHandler)

(***************************************************************************)
(* C6, amended: every response sent while the request's version is not     *)
(* HTTP/0.9 carries the three headers, each once and before the blank line *)
(* that ends the header block; a response sent while the version is        *)
(* HTTP/0.9 (to a request line of two words or one, or of a version that   *)
(* was refused) has no header block and carries none of them.              *)
(***************************************************************************)
C6_HeaderBlockCarriesCors ==
    handled > 0 =>
        IF lastHandler.request_version # "HTTP/0.9"
        THEN CarriesCors(lastHandler)
        ELSE HeaderLines(lastHandler) = {}

C6_Witness ==
    /\ handled > 0
    /\ lastRequest = <<"GET", "/missing.html", "HTTP/1.1">>
    /\ lastHandler.wire[1] = <<"status", 404>>
    /\ CarriesCors(lastHandler)

(***************************************************************************)
(* C7: every handled request prints exactly one log line, of the form      *)
(* '[<timestamp>] <log line>', whether it is answered 200 or by an error   *)
(* response: log_message is called once per request.                       *)
(***************************************************************************)
\* the lines of stdout that the n-th request printed
LogOf(n) == SelectSeq(stdout, LAMBDA line : IsLogLine(line) /\ line[3] = n)
KindsOf(n) == [i \in 1 .. Len(LogOf(n)) |-> LogOf(n)[i][2]]

C7_OneLogLinePerRequest ==
    /\ \A n \in 1 .. handled : Len(LogOf(n)) = 1
    /\ handled > 0 => Len(lastHandler.log) = 1

(***************************************************************************)
(* C7, amended: every handled request prints exactly one access line       *)
(* '[<timestamp>] "<request line>" <status> -'; a request answered by an   *)
(* error response (send_error, status 400 and above) prints one more line  *)
(* before it, '[<timestamp>] code <status>, message <text>'. log_message   *)
(* is called once for a 200 response and twice for an error response.      *)
(***************************************************************************)
C7_AccessLinePlusErrorLine ==
    /\ \A n \in 1 .. handled : KindsOf(n) \in {<<"access">>, <<"error", "access">>}
    /\ handled > 0 =>
          /\ Printed(lastHandler.log, handled) = LogOf(handled)
          /\ \A i \in 1 .. Len(lastHandler.log) : lastHandler.log[i][1] = "[timestamp]"
          /\ IF Status(lastHandler) >= 400
             THEN lastHandler.log = << <<"[timestamp]", "error", Status(lastHandler)>>,
                                       <<"[timestamp]", "access", Status(lastHandler)>> >>
             ELSE lastHandler.log = << <<"[timestamp]", "access", 200>> >>

C7_Witness ==
    /\ handled = 2
    /\ KindsOf(1) = <<"error", "access">>
    /\ KindsOf(2) = <<"access">>
    /\ Status(lastHandler) = 200

(***************************************************************************)
(* C8: once a bind has succeeded, main() attempts no other bind: the only  *)
(* way out of serving is the end of the process, also when os.chdir or     *)
(* serve_forever raises an OSError of any errno, 98 included.              *)
(***************************************************************************)
C8_NoBindAfterBound ==
    \A i \in AttemptsWith({0}) : i = Len(attempts)

\* what the code does: after a bind that succeeded, another bind is attempted
\* only when an OSError of errno 98 was raised by os.chdir or serve_forever and
\* printed as a busy port
C8_BindAfterBoundOnlyOnErrno98 ==
    \A i \in AttemptsWith({0}) :
        i < Len(attempts) => (bodyErrors > 0 /\ WasPrinted(BusyLine(attempts[i][1])))

(***************************************************************************)
(* C9: files are served from the directory that holds the program file,    *)
(* whatever the working directory at launch: the response to a request     *)
(* line is the one computed in that directory, the same in every run.      *)
(***************************************************************************)
C9_ServedFromScriptDir ==
    handled > 0 =>
        /\ lastHandler.directory = ScriptDir
        /\ lastHandler = handle_one_request(ScriptDir, lastRequest)

C9_Witness ==
    /\ handled > 0
    /\ launchDir = <<"home">>
    /\ lastRequest = <<"GET", "/test-elements.html", "HTTP/1.1">>
    /\ lastHandler.wire[Len(lastHandler.wire)] = <<"body", "fixture page">>

(***************************************************************************)
(* C10: a request that ends in an error response (missing file, malformed  *)
(* request, unsupported method) changes nothing else: the process stays in *)
(* serve_forever on the same port with its socket, no bind is attempted,   *)
(* the process does not exit, and later requests are handled.              *)
(***************************************************************************)
C10_RequestErrorKeepsServing ==
    [][(handled' = handled + 1 /\ Status(lastHandler') >= 400) =>
          /\ pc = "serving" /\ pc' = "serving"
          /\ listening' = {port} /\ listening' = listening
          /\ port' = port
          /\ attempts' = attempts
          /\ exitStatus' = {}
          /\ Len(lastHandler'.wire) > 0]_vars

C10_Witness ==
    /\ handled = 2
    /\ pc = "serving"
    /\ KindsOf(1) = <<"error", "access">>
    /\ lastRequest = <<"GET", "/test-elements.html", "HTTP/1.1">>
    /\ Status(lastHandler) = 200
    /\ listening = {port}

(***************************************************************************)
(* C11: the process holds at most one listening socket at every point: a   *)
(* bind that fails leaves none held when the next attempt starts, exactly  *)
(* one (on the port served) is held throughout serving, and on every way   *)
(* out of serving (interrupt, exception, return of serve_forever) the      *)
(* socket is closed before the process ends.                               *)
(***************************************************************************)
C11_AtMostOneListeningSocket ==
    /\ Cardinality(listening) <= 1
    /\ pc = "scan" => listening = {}
    /\ pc = "serving" => (listening = {port} /\ attempts[Len(attempts)] = <<port, 0>>)
    /\ pc = "exited" => listening = {}

C11_Witness ==
    /\ pc = "exited"
    /\ interrupted
    /\ Cardinality(BoundPorts) = 2
    /\ InUse # {}
    /\ listening = {}

(***************************************************************************)
(* C12: requests are handled one at a time: when a request is handled all  *)
(* the log lines of the requests before it are printed, and its own lines  *)
(* follow them as one block. So the log lines of standard output are in    *)
(* the order the requests were handled, never interleaved, and complete    *)
(* for every request handled.                                              *)
(***************************************************************************)
LogLines == SelectSeq(stdout, IsLogLine)

C12_LogLinesInHandlingOrder ==
    /\ \A i, j \in 1 .. Len(LogLines) : i < j => LogLines[i][3] <= LogLines[j][3]
    /\ {LogLines[i][3] : i \in 1 .. Len(LogLines)} = 1 .. handled
    /\ \A n \in 1 .. handled : LogOf(n)[Len(LogOf(n))][2] = "access"
    /\ handled > 0 =>
          SubSeq(LogLines, Len(LogLines) - Len(lastHandler.log) + 1, Len(LogLines))
              = Printed(lastHandler.log, handled)

C12_Witness ==
    /\ handled = 2
    /\ Len(LogLines) = 4
    /\ KindsOf(1) = KindsOf(2)
    /\ Status(lastHandler) = 404

(***************************************************************************)
(* C13: the port scan is bounded and always ends: a run makes at most 10   *)
(* bind attempts, only on ports of 8080..8089, in strictly increasing port *)
(* order (no port twice, never back to an earlier port), and at every      *)
(* point the process later is in the serving state or has exited: it never *)
(* stays in the scan.                                                      *)
(***************************************************************************)
ScanBounded ==
    /\ Len(attempts) <= ScanLen
    /\ \A i \in 1 .. Len(attempts) : attempts[i][1] \in Ports
    /\ \A i, j \in 1 .. Len(attempts) : i < j => attempts[i][1] < attempts[j][1]
    /\ pc = "scan" =>
          /\ port \in Ports
          /\ \A i \in 1 .. Len(attempts) : attempts[i][1] < port

C13_ScanBoundedAndEnds ==
    /\ []ScanBounded
    /\ []<>(pc \in {"serving", "exited"})

C13_Witness ==
    /\ Len(attempts) = ScanLen
    /\ pc = "serving"
    /\ port = PORT + ScanLen - 1
    /\ Cardinality(InUse) = ScanLen - 2

(***************************************************************************)
(* C14: 'Could not find an available port' is printed, and the exit with   *)
(* status 1 that follows it taken, only in runs in which no bind ever      *)
(* succeeded; a run in which serve_forever returns leaves the for by its   *)
(* break and does not print it.                                            *)
(***************************************************************************)
C14_NoPortLineOnlyWithoutBind ==
    /\ WasPrinted(NoPortLine) => (BoundPorts = {} /\ exitStatus = {1})
    /\ exitStatus = {0} => ~WasPrinted(NoPortLine)

\* what the code does: the line is printed when the last iteration, on 8089,
\* ends in continue; after a bind that succeeded only when every port bound was
\* left on an OSError of errno 98 raised by os.chdir or serve_forever (see C8)
C14_NoPortLineAfterBindOnlyOnErrno98 ==
    WasPrinted(NoPortLine) =>
        /\ pc = "exited" /\ exitStatus = {1}
        /\ LastLine = NoPortLine
        /\ attempts[Len(attempts)][1] = PORT + ScanLen - 1
        /\ WasPrinted(BusyLine(PORT + ScanLen - 1))
        /\ \A q \in BoundPorts : bodyErrors > 0 /\ WasPrinted(BusyLine(q))

\* the return of serve_forever takes the break: the process ends with status 0
\* and the else branch of the for is not run
C14_BreakSkipsElse ==
    exitStatus = {0} =>
        /\ ~WasPrinted(NoPortLine)
        /\ attempts[Len(attempts)][2] = 0
        /\ ~WasPrinted(BusyLine(attempts[Len(attempts)][1]))

(***************************************************************************)
(* C15: every 'Port <p> is busy, trying <p+1>' line is followed by a bind  *)
(* attempt on p+1: the port it announces is a port of 8080..8089 that      *)
(* main() attempts next (it is the port of the iteration that is about to  *)
(* bind, or a port already attempted).                                     *)
(***************************************************************************)
AnnouncedIsAttempted(line) ==
    \/ pc = "scan" /\ port = line[3]
    \/ \E k \in 1 .. Len(attempts) : attempts[k][1] = line[3]

C15_BusyLineAnnouncesNextAttempt ==
    \A i \in 1 .. Len(stdout) :
        IsBusyLine(stdout[i]) =>
            /\ stdout[i][3] = stdout[i][2] + 1
            /\ stdout[i][3] \in Ports
            /\ AnnouncedIsAttempted(stdout[i])

\* what the code does: the line of a port below 8089 announces the port of the
\* next bind attempt; the line of 8089 announces 8090, which is not in the range
\* and is never attempted: the next line is 'Could not find an available port'
C15_AnnouncedExceptAfterLastPort ==
    \A i \in 1 .. Len(stdout) :
        IsBusyLine(stdout[i]) =>
            /\ stdout[i][3] = stdout[i][2] + 1
            /\ IF stdout[i][2] < PORT + ScanLen - 1
               THEN stdout[i][3] \in Ports /\ AnnouncedIsAttempted(stdout[i])
               ELSE /\ stdout[i][3] \notin Ports
                    /\ ~AnnouncedIsAttempted(stdout[i])
                    /\ i + 1 = Len(stdout)
                    /\ stdout[i + 1] = NoPortLine
                    /\ pc = "exited"

====
